---- MODULE Spec2Model ----
(***************************************************************************)
(* Model of the exam syllabus fetcher (app.py): the fetch-button handler,  *)
(* ExamSyllabusFetcher.fetch_syllabus with its search / crawl / LLM calls, *)
(* LinkExtractor.extract_links, the prompt formatting of                   *)
(* summarize_syllabus and the JSON decode / encode of the handler.         *)
(*                                                                         *)
(* Python strings are sequences of one-character strings; an emoji is the  *)
(* single character "U+<code point>", and so is the backquote.  A value    *)
(* that may be None is a sequence of length 0 (None) or 1 (the value).     *)
(***************************************************************************)
EXTENDS Integers, Sequences, FiniteSets, TLC

\* ------------------------------------------------------------------------
\* String literals of app.py
\* ------------------------------------------------------------------------

\* '\U0001f50d Searching for syllabus...'
MSG_SEARCHING ==
    <<"U+1F50D", " ", "S", "e", "a", "r", "c", "h", "i", "n", "g", " ", "f",
    "o", "r", " ", "s", "y", "l", "l", "a", "b", "u", "s", ".", ".", ".">>

\* '\U0001f30d Crawling: '
MSG_CRAWLING ==
    <<"U+1F30D", " ", "C", "r", "a", "w", "l", "i", "n", "g", ":", " ">>

\* '\U0001f4dd Summarizing syllabus...'
MSG_SUMMARIZING ==
    <<"U+1F4DD", " ", "S", "u", "m", "m", "a", "r", "i", "z", "i", "n", "g",
    " ", "s", "y", "l", "l", "a", "b", "u", "s", ".", ".", ".">>

\* 'No relevant syllabus found.'
NO_RELEVANT ==
    <<"N", "o", " ", "r", "e", "l", "e", "v", "a", "n", "t", " ", "s", "y",
    "l", "l", "a", "b", "u", "s", " ", "f", "o", "u", "n", "d", ".">>

\* 'Syllabus from '
FRAG_HEAD ==
    <<"S", "y", "l", "l", "a", "b", "u", "s", " ", "f", "r", "o", "m", " ">>

\* ': '
FRAG_SEP ==
    <<":", " ">>

\* '\n\n'
FRAG_END ==
    <<"\n", "\n">>

\* template text, part 1 of 3
TEMPLATE_LIT1 ==
    <<"Y", "o", "u", " ", "h", "a", "v", "e", " ", "b", "e", "e", "n", " ",
    "g", "i", "v", "e", "n", " ", "t", "h", "e", " ", "l", "a", "t", "e",
    "s", "t", " ", "s", "y", "l", "l", "a", "b", "u", "s", " ", "f", "o",
    "r", " ", "t", "h", "e", " ">>

\* template text, part 2 of 3
TEMPLATE_LIT2 ==
    <<" ", "e", "x", "a", "m", " ", "f", "r", "o", "m", " ", "d", "i", "f",
    "f", "e", "r", "e", "n", "t", " ", "w", "e", "b", "s", "i", "t", "e",
    "s", ".", " ", "Y", "o", "u", " ", "m", "u", "s", "t", " ", "a", "n",
    "a", "l", "y", "z", "e", " ", "t", "h", "i", "s", " ", "s", "y", "l",
    "l", "a", "b", "u", "s", " ", "a", "n", "d", " ", "r", "e", "t", "u",
    "r", "n", " ", "t", "h", "e", " ", "f", "i", "n", "a", "l", " ", "s",
    "t", "r", "u", "c", "t", "u", "r", "e", "d", " ", "s", "y", "l", "l",
    "a", "b", "u", "s", ".", " ", "Y", "o", "u", " ", "c", "a", "n", " ",
    "i", "n", "t", "e", "g", "r", "a", "t", "e", " ", "b", "o", "t", "h",
    " ", "t", "h", "e", " ", "p", "r", "o", "v", "i", "d", "e", "d", " ",
    "i", "n", "f", "o", "r", "m", "a", "t", "i", "o", "n", " ", "a", "n",
    "d", " ", "y", "o", "u", "r", " ", "u", "n", "d", "e", "r", "s", "t",
    "a", "n", "d", "i", "n", "g", " ", "t", "o", " ", "p", "r", "o", "v",
    "i", "d", "e", " ", "a", "n", " ", "a", "c", "c", "u", "r", "a", "t",
    "e", " ", "s", "y", "l", "l", "a", "b", "u", "s", ".", " ", "R", "e",
    "t", "u", "r", "n", " ", "t", "h", "e", " ", "o", "u", "t", "p", "u",
    "t", " ", "i", "n", " ", "a", " ", "w", "e", "l", "l", "-", "s", "t",
    "r", "u", "c", "t", "u", "r", "e", "d", " ", "J", "S", "O", "N", " ",
    "f", "o", "r", "m", "a", "t", " ", "w", "i", "t", "h", " ", "t", "h",
    "e", " ", "f", "o", "l", "l", "o", "w", "i", "n", "g", " ", "s", "t",
    "r", "u", "c", "t", "u", "r", "e", ":", " ", "{", " ", " ", "\"", "e",
    "x", "a", "m", "\"", ":", " ", "\"">>

\* template text, part 3 of 3
TEMPLATE_LIT3 ==
    <<"\"", ",", " ", " ", " ", "\"", "s", "u", "b", "j", "e", "c", "t", "s",
    "\"", ":", " ", "[", " ", " ", " ", " ", "{", " ", " ", " ", " ", " ",
    " ", "\"", "s", "u", "b", "j", "e", "c", "t", "\"", ":", " ", "\"", "<",
    "s", "u", "b", "j", "e", "c", "t", "_", "n", "a", "m", "e", ">", "\"",
    ",", " ", " ", " ", " ", " ", " ", " ", "\"", "t", "o", "p", "i", "c",
    "s", "\"", ":", " ", "[", " ", " ", " ", " ", " ", " ", " ", " ", "{",
    " ", " ", " ", " ", " ", " ", " ", " ", " ", " ", "\"", "t", "o", "p",
    "i", "c", "\"", ":", " ", "\"", "<", "t", "o", "p", "i", "c", "_", "n",
    "a", "m", "e", ">", "\"", ",", " ", " ", " ", " ", " ", " ", " ", " ",
    " ", " ", " ", "\"", "s", "u", "b", "t", "o", "p", "i", "c", "s", "\"",
    ":", " ", "[", "\"", "<", "s", "u", "b", "t", "o", "p", "i", "c", "_",
    "1", ">", "\"", ",", " ", "\"", "<", "s", "u", "b", "t", "o", "p", "i",
    "c", "_", "2", ">", "\"", ",", " ", ".", ".", ".", "]", " ", " ", " ",
    " ", " ", " ", " ", " ", "}", ",", " ", ".", ".", ".", " ", " ", " ",
    " ", " ", " ", "]", " ", " ", " ", " ", "}", ",", " ", ".", ".", ".",
    " ", " ", "]", "}", " ">>

\* the crawl loop keeps at most this many links
MAX_LINKS ==
    2

\* json.dumps(..., indent=4)
JSON_INDENT ==
    4

\* ------------------------------------------------------------------------
\* Python values
\* ------------------------------------------------------------------------

None ==
    <<>>

Some(x) ==
    <<x>>

\* a truth test that only None fails
Truthy_NotNone(o) ==
    o # None

\* truth value of an optional string: None and "" are false
Truthy(o) ==
    o # None /\ o[1] # <<>>

\* a str object and a chat message object (what a chat model returns)
Str(chars) ==
    [type |-> "str", v |-> chars]

AIMessage(chars) ==
    [type |-> "AIMessage", v |-> chars]

\* text occurs in s at position i
OccursAt(s, i, text) ==
    /\ i >= 1
    /\ i + Len(text) - 1 <= Len(s)
    /\ SubSeq(s, i, i + Len(text) - 1) = text

\* Python's "text in s"
Contains(s, text) ==
    \E i \in 1..(Len(s) + 1) : OccursAt(s, i, text)

\* ------------------------------------------------------------------------
\* LinkExtractor.extract_links: re.findall(r"https?://[^\s<>\"']+", text)
\* ------------------------------------------------------------------------

\* \s of the re module (ASCII part)
Whitespace ==
    {" ", "\t", "\n", "\r", "\f"}

\* the characters the class [^\s<>\"'] rejects
UrlStop ==
    Whitespace \cup {"<", ">", "\"", "'"}

HTTP ==
    <<"h", "t", "t", "p">>

SCHEME_SEP ==
    <<":", "/", "/">>

\* position after "http://" or "https://" starting at i, 0 when neither is there
SchemeEnd(text, i) ==
    IF ~OccursAt(text, i, HTTP) THEN 0
    ELSE IF OccursAt(text, i + 4, <<"s">> \o SCHEME_SEP) THEN i + 8
    ELSE IF OccursAt(text, i + 4, SCHEME_SEP) THEN i + 7
    ELSE 0

RECURSIVE RunEnd_StopsAtPunctuation(_, _)
\* the run of a class that also rejects "!"
RunEnd_StopsAtPunctuation(text, j) ==
    IF j > Len(text) \/ text[j] \in UrlStop \cup {"!"} THEN j
    ELSE RunEnd_StopsAtPunctuation(text, j + 1)

RECURSIVE RunEnd(_, _)
\* first position at or after j whose character the class rejects (greedy +)
RunEnd(text, j) ==
    IF j > Len(text) \/ text[j] \in UrlStop THEN j ELSE RunEnd(text, j + 1)

\* end (exclusive) of the match of the pattern at i, 0 when it does not match
MatchAt(text, i) ==
    LET j == SchemeEnd(text, i) IN
    IF j = 0 THEN 0
    ELSE LET k == RunEnd(text, j) IN IF k > j THEN k ELSE 0

RECURSIVE FindAllFrom(_, _)
\* non-overlapping matches, scanning left to right from position i
FindAllFrom(text, i) ==
    IF i > Len(text) THEN <<>>
    ELSE LET k == MatchAt(text, i) IN
         IF k > 0 THEN <<SubSeq(text, i, k - 1)>> \o FindAllFrom(text, k)
         ELSE FindAllFrom(text, i + 1)

extract_links(text) ==
    FindAllFrom(text, 1)

\* ------------------------------------------------------------------------
\* json.loads / json.dumps as the button handler uses them
\* A decoded value is [t |-> type, v |-> ...]: "str" (characters), "int" and
\* "float" (the literal), "const" (true, false, null, NaN, Infinity,
\* -Infinity: the literal), "list" (values), "dict" (<<key, value>> pairs).
\* ------------------------------------------------------------------------

JsonWhitespace ==
    {" ", "\t", "\n", "\r"}

Digits ==
    {"0", "1", "2", "3", "4", "5", "6", "7", "8", "9"}

\* characters a strict JSON string may not hold unescaped
ControlChars ==
    {"\t", "\n", "\r", "\f"}

\* the constants the scanner accepts, longest first where one prefixes another
JsonConstants ==
    << <<"n", "u", "l", "l">>, <<"t", "r", "u", "e">>,
       <<"f", "a", "l", "s", "e">>, <<"N", "a", "N">>,
       <<"-", "I", "n", "f", "i", "n", "i", "t", "y">>,
       <<"I", "n", "f", "i", "n", "i", "t", "y">> >>

Fail ==
    [ok |-> FALSE, pos |-> 0, val |-> [t |-> "const", v |-> <<>>]]

Ok(pos, val) ==
    [ok |-> TRUE, pos |-> pos, val |-> val]

RECURSIVE SkipWs(_, _)
SkipWs(s, i) ==
    IF i <= Len(s) /\ s[i] \in JsonWhitespace THEN SkipWs(s, i + 1) ELSE i

RECURSIVE DigitsEnd(_, _)
\* first position at or after i that is not a digit
DigitsEnd(s, i) ==
    IF i <= Len(s) /\ s[i] \in Digits THEN DigitsEnd(s, i + 1) ELSE i

\* the character an escape sequence \c stands for; <<>> when \c is no escape
\* (\uXXXX is outside the model: no modelled text holds it)
Unescape(c) ==
    CASE c = "\"" -> <<"\"">>
      [] c = "\\" -> <<"\\">>
      [] c = "/" -> <<"/">>
      [] c = "n" -> <<"\n">>
      [] c = "r" -> <<"\r">>
      [] c = "t" -> <<"\t">>
      [] c = "f" -> <<"\f">>
      [] OTHER -> <<>>

RECURSIVE ScanString(_, _, _)
\* py_scanstring from the character after the opening quote
ScanString(s, j, acc) ==
    IF j > Len(s) THEN Fail
    ELSE IF s[j] = "\"" THEN Ok(j + 1, [t |-> "str", v |-> acc])
    ELSE IF s[j] = "\\" THEN
        IF j + 1 > Len(s) \/ Unescape(s[j + 1]) = <<>> THEN Fail
        ELSE ScanString(s, j + 2, acc \o Unescape(s[j + 1]))
    ELSE IF s[j] \in ControlChars THEN Fail
    ELSE ScanString(s, j + 1, Append(acc, s[j]))

\* end of the integer part (0|[1-9]\d*) starting at i, 0 when none is there
IntEnd(s, i) ==
    IF i > Len(s) \/ s[i] \notin Digits THEN 0
    ELSE IF s[i] = "0" THEN i + 1
    ELSE DigitsEnd(s, i)

\* end of the optional fraction (\.\d+)? starting at p
FracEnd(s, p) ==
    IF p + 1 <= Len(s) /\ s[p] = "." /\ s[p + 1] \in Digits
    THEN DigitsEnd(s, p + 1) ELSE p

\* position of the first digit an exponent [eE][-+]?\d+ at p would have
ExpDigits(s, p) ==
    IF p + 1 <= Len(s) /\ s[p + 1] \in {"-", "+"} THEN p + 2 ELSE p + 1

\* end of the optional exponent starting at p
ExpEnd(s, p) ==
    IF p <= Len(s) /\ s[p] \in {"e", "E"} /\ ExpDigits(s, p) <= Len(s)
       /\ s[ExpDigits(s, p)] \in Digits
    THEN DigitsEnd(s, ExpDigits(s, p)) ELSE p

\* the number from i whose integer part ends at p and which ends at q
NumberValue(s, i, p, q) ==
    Ok(q, [t |-> IF q = p THEN "int" ELSE "float", v |-> SubSeq(s, i, q - 1)])

\* NUMBER_RE = (-?(?:0|[1-9]\d*))(\.\d+)?([eE][-+]?\d+)? matched at i
ScanNumber(s, i) ==
    LET p == IntEnd(s, IF i <= Len(s) /\ s[i] = "-" THEN i + 1 ELSE i)
    IN  IF p = 0 THEN Fail ELSE NumberValue(s, i, p, ExpEnd(s, FracEnd(s, p)))

\* the constant literal at position i, Fail when none is there
ScanConstant(s, i) ==
    LET hits == {n \in 1..Len(JsonConstants) : OccursAt(s, i, JsonConstants[n])}
    IN  IF hits = {} THEN Fail
        ELSE LET lit == JsonConstants[CHOOSE n \in hits : TRUE]
             IN  Ok(i + Len(lit), [t |-> "const", v |-> lit])

\* dict[key] = value: a repeated key keeps its place and takes the new value
DictSet(pairs, key, value) ==
    IF \E n \in 1..Len(pairs) : pairs[n][1] = key
    THEN [n \in 1..Len(pairs) |->
            IF pairs[n][1] = key THEN <<key, value>> ELSE pairs[n]]
    ELSE Append(pairs, <<key, value>>)

RECURSIVE ScanOnce(_, _)
RECURSIVE ScanMembers(_, _, _)
RECURSIVE ScanElements(_, _, _)

\* scanner.py_make_scanner._scan_once: the value starting exactly at i
ScanOnce(s, i) ==
    IF i > Len(s) THEN Fail
    ELSE IF s[i] = "\"" THEN ScanString(s, i + 1, <<>>)
    ELSE IF s[i] = "{" THEN
        LET j == SkipWs(s, i + 1) IN
        IF j <= Len(s) /\ s[j] = "}" THEN Ok(j + 1, [t |-> "dict", v |-> <<>>])
        ELSE ScanMembers(s, j, <<>>)
    ELSE IF s[i] = "[" THEN
        LET j == SkipWs(s, i + 1) IN
        IF j <= Len(s) /\ s[j] = "]" THEN Ok(j + 1, [t |-> "list", v |-> <<>>])
        ELSE ScanElements(s, j, <<>>)
    ELSE IF ScanNumber(s, i).ok THEN ScanNumber(s, i)
    ELSE ScanConstant(s, i)

\* decoder.JSONObject from the first key; acc holds the pairs read so far
ScanMembers(s, i, acc) ==
    IF i > Len(s) \/ s[i] # "\"" THEN Fail
    ELSE LET key == ScanString(s, i + 1, <<>>) IN
    IF ~key.ok THEN Fail
    ELSE LET c == SkipWs(s, key.pos) IN
    IF c > Len(s) \/ s[c] # ":" THEN Fail
    ELSE LET value == ScanOnce(s, SkipWs(s, c + 1)) IN
    IF ~value.ok THEN Fail
    ELSE LET pairs == DictSet(acc, key.val.v, value.val)
             e == SkipWs(s, value.pos) IN
    IF e > Len(s) THEN Fail
    ELSE IF s[e] = "}" THEN Ok(e + 1, [t |-> "dict", v |-> pairs])
    ELSE IF s[e] = "," THEN ScanMembers(s, SkipWs(s, e + 1), pairs)
    ELSE Fail

\* decoder.JSONArray from the first element; acc holds the values read so far
ScanElements(s, i, acc) ==
    LET value == ScanOnce(s, i) IN
    IF ~value.ok THEN Fail
    ELSE LET e == SkipWs(s, value.pos) IN
    IF e > Len(s) THEN Fail
    ELSE IF s[e] = "]" THEN Ok(e + 1, [t |-> "list", v |-> Append(acc, value.val)])
    ELSE IF s[e] = "," THEN ScanElements(s, SkipWs(s, e + 1), Append(acc, value.val))
    ELSE Fail

\* JSONDecoder.decode: one value, whitespace around it, nothing after it
decode(s) ==
    LET r == ScanOnce(s, SkipWs(s, 1)) IN
    IF r.ok /\ SkipWs(s, r.pos) = Len(s) + 1 THEN r ELSE Fail

\* json.loads: [error |-> "" or the exception raised, val |-> decoded value]
json_loads(x) ==
    IF x.type # "str" THEN [error |-> "TypeError", val |-> Fail.val]
    ELSE IF decode(x.v).ok THEN [error |-> "", val |-> decode(x.v).val]
    ELSE [error |-> "JSONDecodeError", val |-> Fail.val]

\* ensure_ascii string encoding: quotes around the escaped characters
EscapeChar(c) ==
    CASE c = "\"" -> <<"\\", "\"">>
      [] c = "\\" -> <<"\\", "\\">>
      [] c = "\n" -> <<"\\", "n">>
      [] c = "\r" -> <<"\\", "r">>
      [] c = "\t" -> <<"\\", "t">>
      [] c = "\f" -> <<"\\", "f">>
      [] OTHER -> <<c>>

RECURSIVE EscapeAll(_)
EscapeAll(chars) ==
    IF chars = <<>> THEN <<>>
    ELSE EscapeChar(Head(chars)) \o EscapeAll(Tail(chars))

encode_str(chars) ==
    <<"\"">> \o EscapeAll(chars) \o <<"\"">>

RECURSIVE Spaces(_)
Spaces(n) ==
    IF n = 0 THEN <<>> ELSE <<" ">> \o Spaces(n - 1)

RECURSIVE Encode(_, _)
RECURSIVE EncodeItems(_, _, _, _)

\* one item per line at the given depth, "," between items; isDict: the
\* items are <<key, value>> pairs written as "key": value
EncodeItems(items, n, depth, isDict) ==
    IF n > Len(items) THEN <<>>
    ELSE (IF n > 1 THEN <<",">> ELSE <<>>)
         \o <<"\n">> \o Spaces(JSON_INDENT * depth)
         \o (IF isDict
             THEN encode_str(items[n][1]) \o <<":", " ">>
                  \o Encode(items[n][2], depth)
             ELSE Encode(items[n], depth))
         \o EncodeItems(items, n + 1, depth, isDict)

\* JSONEncoder(indent=4)._iterencode of a value nested depth levels deep
\* (a float is written as its literal: repr() of floats is outside the model)
Encode(val, depth) ==
    CASE val.t = "str" -> encode_str(val.v)
      [] val.t = "int" -> IF val.v = <<"-", "0">> THEN <<"0">> ELSE val.v
      [] val.t \in {"float", "const"} -> val.v
      [] val.t = "list" ->
            IF val.v = <<>> THEN <<"[", "]">>
            ELSE <<"[">> \o EncodeItems(val.v, 1, depth + 1, FALSE)
                 \o <<"\n">> \o Spaces(JSON_INDENT * depth) \o <<"]">>
      [] val.t = "dict" ->
            IF val.v = <<>> THEN <<"{", "}">>
            ELSE <<"{">> \o EncodeItems(val.v, 1, depth + 1, TRUE)
                 \o <<"\n">> \o Spaces(JSON_INDENT * depth) \o <<"}">>

json_dumps(val) ==
    Encode(val, 0)

\* ------------------------------------------------------------------------
\* ExamSyllabusFetcher.summarize_syllabus: the prompt
\* ------------------------------------------------------------------------

Lit(chars) ==
    [kind |-> "lit", text |-> chars, name |-> ""]

Slot(name) ==
    [kind |-> "slot", text |-> <<>>, name |-> name]

\* the template string of summarize_syllabus, split at its replacement fields
PROMPT_TEMPLATE ==
    <<Lit(TEMPLATE_LIT1), Slot("exam"), Lit(TEMPLATE_LIT2), Slot("exam"),
      Lit(TEMPLATE_LIT3)>>

RECURSIVE FormatFrom(_, _, _)
\* every replacement field gives way to the keyword argument of its name;
\* a keyword argument no field names is not used
FormatFrom(template, n, kwargs) ==
    IF n > Len(template) THEN <<>>
    ELSE (IF template[n].kind = "lit" THEN template[n].text
          ELSE kwargs[template[n].name])
         \o FormatFrom(template, n + 1, kwargs)

\* prompt.format(exam=exam_name, syllabus=syllabus_text)
formatted_prompt(syllabus_text, exam) ==
    FormatFrom(PROMPT_TEMPLATE, 1, [exam |-> exam, syllabus |-> syllabus_text])

\* ------------------------------------------------------------------------
\* The agent wrappers
\* ------------------------------------------------------------------------

\* WebSearchAgent.search / CrawlAgent.crawl: response.content if response
\* else None (a response object is true whatever its content)
agent_content(response) ==
    IF response # None THEN response[1].content ELSE None

\* ------------------------------------------------------------------------
\* Inputs
\* ------------------------------------------------------------------------

\* 'JEE'
EXAM_JEE ==
    <<"J", "E", "E">>

\* 'GATE'
EXAM_GATE ==
    <<"G", "A", "T", "E">>

\* 'http://a.com/x'
URL_A ==
    <<"h", "t", "t", "p", ":", "/", "/", "a", ".", "c", "o", "m", "/", "x">>

\* 'https://b.org/y'
URL_B ==
    <<"h", "t", "t", "p", "s", ":", "/", "/", "b", ".", "o", "r", "g", "/", "y">>

\* ' http://a.com/x'
PIECE_A ==
    <<" ", "h", "t", "t", "p", ":", "/", "/", "a", ".", "c", "o", "m", "/", "x">>

\* ' https://b.org/y'
PIECE_B ==
    <<" ", "h", "t", "t", "p", "s", ":", "/", "/", "b", ".", "o", "r", "g",
    "/", "y">>

\* '!'
PIECE_BANG ==
    <<"!">>

MARKUP_TEXT ==
    <<"S", "e", "e", " ", "<", "h", "t", "t", "p", "s", ":", "/", "/", "b",
    ".", "o", "r", "g", "/", "y", ">", " ", "o", "r", " ", "\"", "h", "t",
    "t", "p", ":", "/", "/", "a", ".", "c", "o", "m", "/", "x", "\"", ".">>

\* 'Visit http://a.com/x and https://b.org/y!'
EXAMPLE_TEXT ==
    <<"V", "i", "s", "i", "t", " ", "h", "t", "t", "p", ":", "/", "/", "a",
    ".", "c", "o", "m", "/", "x", " ", "a", "n", "d", " ", "h", "t", "t",
    "p", "s", ":", "/", "/", "b", ".", "o", "r", "g", "/", "y", "!">>

\* 'Physics, Maths'
PLAIN_TEXT ==
    <<"P", "h", "y", "s", "i", "c", "s", ",", " ", "M", "a", "t", "h", "s">>

\* 'Unit 1'
CRAWL_TEXT_1 ==
    <<"U", "n", "i", "t", " ", "1">>

OUT_OBJECT ==
    <<"{", "\"", "e", "x", "a", "m", "\"", ":", " ", "\"", "J", "E", "E", "\"",
    ",", " ", "\"", "s", "u", "b", "j", "e", "c", "t", "s", "\"", ":", " ",
    "[", "]", "}">>

OUT_NESTED ==
    <<"{", "\"", "s", "u", "b", "j", "e", "c", "t", "s", "\"", ":", " ", "[",
    "{", "\"", "s", "u", "b", "j", "e", "c", "t", "\"", ":", " ", "\"", "M",
    "a", "t", "h", "s", "\"", ",", " ", "\"", "t", "o", "p", "i", "c", "s",
    "\"", ":", " ", "[", "1", ",", " ", "-", "0", "]", "}", "]", "}">>

\* '[true, null]'
OUT_ARRAY ==
    <<"[", "t", "r", "u", "e", ",", " ", "n", "u", "l", "l", "]">>

OUT_STRING ==
    <<"\"", "o", "k", "\"">>

OUT_FENCED ==
    <<"U+0060", "U+0060", "U+0060", "j", "s", "o", "n", "\n", "{", "}", "\n",
    "U+0060", "U+0060", "U+0060">>

OUT_TRAILING_COMMA ==
    <<"{", "\"", "e", "x", "a", "m", "\"", ":", " ", "\"", "J", "E", "E", "\"",
    ",", "}">>

\* '{} done'
OUT_EXTRA_DATA ==
    <<"{", "}", " ", "d", "o", "n", "e">>

OUT_TRUNCATED ==
    <<"{", "\"", "e", "x", "a", "m", "\"", ":", " ">>

\* ''
OUT_EMPTY ==
    <<>>

\* number of pieces a generated search text is made of, at most
MaxPieces ==
    3

Pieces ==
    {PIECE_A, PIECE_B, PIECE_BANG}

RECURSIVE PieceTexts(_)
PieceTexts(n) ==
    IF n = 0 THEN {<<>>}
    ELSE PieceTexts(n - 1) \cup {t \o p : t \in PieceTexts(n - 1), p \in Pieces}

ExamNames ==
    {<<>>, EXAM_JEE, EXAM_GATE}

SearchTexts ==
    PieceTexts(MaxPieces) \cup {EXAMPLE_TEXT, MARKUP_TEXT, PLAIN_TEXT}

CrawlTexts ==
    {<<>>, CRAWL_TEXT_1}

\* what agent.run gives back: nothing, a response without content, or a
\* response with a text
AgentResponses(texts) ==
    {None, Some([content |-> None])}
        \cup {Some([content |-> Some(t)]) : t \in texts}

\* what llm.invoke gives back
LLMOutputs ==
    {Str(OUT_OBJECT), Str(OUT_NESTED), Str(OUT_ARRAY), Str(OUT_STRING),
     Str(OUT_FENCED), Str(OUT_TRAILING_COMMA), Str(OUT_EXTRA_DATA),
     Str(OUT_TRUNCATED), Str(OUT_EMPTY), Str(NO_RELEVANT),
     AIMessage(OUT_OBJECT)}

\* ------------------------------------------------------------------------
\* State
\* ------------------------------------------------------------------------

VARIABLES
    pc,               \* the button handler: "idle", "fetching" (line 120),
                      \* "finished", "raised" (uncaught exception), "warned"
    fstate,           \* fetch_syllabus: "Idle", "Searching" (in the search
                      \* call), "Crawling", "Summarizing" (in llm.invoke),
                      \* "Done" (returned line 67), "Failed" (returned line 53)
    exam_name,        \* the text input
    search_response,  \* local of fetch_syllabus; None before the search returns
    links,            \* local of fetch_syllabus
    idx,              \* position of the for loop in links, 0 before the loop
    syllabus_content, \* local of fetch_syllabus
    result,           \* what fetch_syllabus returned; None while it runs
    status_box,       \* content of the st.empty() placeholder
    log,              \* status_box.write calls, the call of summarize_syllabus,
                      \* the external calls and their returns, in order
    ui,               \* what the handler has put on the page
    error             \* exception that left the handler, "" when none

vars ==
    <<pc, fstate, exam_name, search_response, links, idx, syllabus_content,
      result, status_box, log, ui, error>>

Event(op, arg, ret) ==
    [op |-> op, arg |-> arg, ret |-> ret]

Write(msg) ==
    Event("write", msg, None)

EmptyPage ==
    [success |-> "", code |-> None, download |-> None, warning |-> ""]

Init ==
    /\ pc = "idle"
    /\ fstate = "Idle"
    /\ exam_name = <<>>
    /\ search_response = None
    /\ links = <<>>
    /\ idx = 0
    /\ syllabus_content = <<>>
    /\ result = None
    /\ status_box = None
    /\ log = <<>>
    /\ ui = EmptyPage
    /\ error = ""

\* ------------------------------------------------------------------------
\* The button handler after fetch_syllabus returned value (lines 120-131)
\* ------------------------------------------------------------------------

\* the handler with a decode failure caught and an empty object shown
HandlerResume_Default(value, box) ==
    LET loaded == json_loads(value)
        syllabus_str == IF loaded.error # "" THEN <<"{", "}">>
                        ELSE json_dumps(loaded.val)
    IN  /\ result' = Some(value)
        /\ pc' = "finished"
        /\ error' = ""
        /\ status_box' = None
        /\ ui' = [ui EXCEPT
                    !.success = "U+2705 Syllabus Retrieved!",
                    !.code = Some(syllabus_str),
                    !.download = Some([label |-> "U+1F4E5 Download Syllabus JSON",
                                               data |-> syllabus_str,
                                       file_name |-> "syllabus.json",
                                       mime |-> "application/json"])]

HandlerResume(value, box) ==
    LET loaded == json_loads(value)
        syllabus_str == json_dumps(loaded.val)
    IN  /\ result' = Some(value)
        /\ IF loaded.error # ""
           THEN /\ pc' = "raised"
                /\ error' = loaded.error
                /\ status_box' = box
                /\ ui' = ui
           ELSE /\ pc' = "finished"
                /\ error' = ""
                /\ status_box' = None
                /\ ui' = [ui EXCEPT
                            !.success = "U+2705 Syllabus Retrieved!",
                            !.code = Some(syllabus_str),
                            !.download = Some([label |-> "U+1F4E5 Download Syllabus JSON",
                                       data |-> syllabus_str,
                                               file_name |-> "syllabus.json",
                                               mime |-> "application/json"])]

\* ------------------------------------------------------------------------
\* fetch_syllabus
\* ------------------------------------------------------------------------

\* links[:2] when more than two links were found (lines 57-58)
kept_links_All(found) ==
    found

kept_links(found) ==
    IF Len(found) > MAX_LINKS THEN SubSeq(found, 1, MAX_LINKS) ELSE found

\* the aggregate starts as the search text when no link was found (line 56)
initial_content_Empty(search_text, found) ==
    <<>>

initial_content(search_text, found) ==
    IF found = <<>> THEN search_text ELSE <<>>

\* syllabus_content += f"Syllabus from {link}: {syllabus_text}\n\n" (line 64)
append_fragment_NoSeparator(content, link, syllabus_text) ==
    content \o FRAG_HEAD \o link \o FRAG_SEP \o syllabus_text

append_fragment(content, link, syllabus_text) ==
    content \o FRAG_HEAD \o link \o FRAG_SEP \o syllabus_text \o FRAG_END

\* the loop with the crawl started before its notification is written
LoopFrom_CallBeforeWrite(n, ls, content, lg) ==
    /\ idx' = n
    /\ syllabus_content' = content
    /\ UNCHANGED <<pc, result, ui, error>>
    /\ IF n <= Len(ls)
       THEN /\ fstate' = "Crawling"
            /\ status_box' = Some(MSG_CRAWLING \o ls[n])
            /\ log' = lg \o <<Event("crawl", ls[n], None),
                              Write(MSG_CRAWLING \o ls[n])>>
       ELSE /\ fstate' = "Summarizing"
            /\ status_box' = Some(MSG_SUMMARIZING)
            /\ log' = lg \o <<Write(MSG_SUMMARIZING),
                              Event("summarize", content, None),
                              Event("llm", formatted_prompt(content, exam_name),
                                    None)>>

\* lines 60-67 from the n-th link on, with the content gathered so far:
\* announce and start the next crawl, or announce, call summarize_syllabus
\* and start the LLM call
LoopFrom(n, ls, content, lg) ==
    /\ idx' = n
    /\ syllabus_content' = content
    /\ UNCHANGED <<pc, result, ui, error>>
    /\ IF n <= Len(ls)
       THEN /\ fstate' = "Crawling"
            /\ status_box' = Some(MSG_CRAWLING \o ls[n])
            /\ log' = lg \o <<Write(MSG_CRAWLING \o ls[n]),
                              Event("crawl", ls[n], None)>>
       ELSE /\ fstate' = "Summarizing"
            /\ status_box' = Some(MSG_SUMMARIZING)
            /\ log' = lg \o <<Write(MSG_SUMMARIZING),
                              Event("summarize", content, None),
                              Event("llm", formatted_prompt(content, exam_name),
                                    None)>>

\* the button is pressed with name in the text input (lines 116-120, 50-51)
Click(name) ==
    /\ pc \in {"idle", "finished", "raised", "warned"}
    /\ exam_name' = name
    /\ search_response' = None
    /\ links' = <<>>
    /\ idx' = 0
    /\ syllabus_content' = <<>>
    /\ result' = None
    /\ error' = ""
    /\ IF name = <<>>
       THEN /\ pc' = "warned"
            /\ fstate' = "Idle"
            /\ status_box' = None
            /\ log' = <<>>
            /\ ui' = [EmptyPage EXCEPT !.warning = "U+26A0 Please enter an exam name."]
       ELSE /\ pc' = "fetching"
            /\ fstate' = "Searching"
            /\ status_box' = Some(MSG_SEARCHING)
            /\ log' = <<Write(MSG_SEARCHING), Event("search", name, None)>>
            /\ ui' = EmptyPage

\* the search returning without the early return of line 53: an absent
\* result is carried on as the empty text
SearchReturns_NoEarlyReturn(response) ==
    /\ fstate = "Searching"
    /\ LET r == agent_content(response)
           text == IF Truthy(r) THEN r[1] ELSE <<>>
           lg == Append(log, Event("search_ret", <<>>, r))
           found == extract_links(text)
       IN  /\ search_response' = r
           /\ exam_name' = exam_name
           /\ links' = kept_links(found)
           /\ LoopFrom(1, kept_links(found), initial_content(text, found), lg)

\* the search call returns (lines 51-61)
SearchReturns(response) ==
    /\ fstate = "Searching"
    /\ LET r == agent_content(response)
           lg == Append(log, Event("search_ret", <<>>, r))
       IN  /\ search_response' = r
           /\ exam_name' = exam_name
           /\ IF ~Truthy(r)
              THEN /\ fstate' = "Failed"
                   /\ log' = lg
                   /\ UNCHANGED <<links, idx, syllabus_content>>
                   /\ HandlerResume(Str(NO_RELEVANT), status_box)
              ELSE LET found == extract_links(r[1])
                   IN  /\ links' = kept_links(found)
                       /\ LoopFrom(1, kept_links(found),
                                   initial_content(r[1], found), lg)

\* the crawl of links[idx] returns (lines 62-64, then the loop goes on)
CrawlReturns(response) ==
    /\ fstate = "Crawling"
    /\ LET syllabus_text == agent_content(response)
           lg == Append(log, Event("crawl_ret", links[idx], syllabus_text))
       IN  /\ UNCHANGED <<exam_name, search_response, links>>
           /\ LoopFrom(idx + 1, links,
                       IF Truthy(syllabus_text)
                       THEN append_fragment(syllabus_content, links[idx],
                                            syllabus_text[1])
                       ELSE syllabus_content,
                       lg)

\* llm.invoke returns; parser.parse hands its argument back (lines 93-94, 67)
LLMReturns(llm_response) ==
    /\ fstate = "Summarizing"
    /\ fstate' = "Done"
    /\ log' = Append(log, Event("llm_ret", <<>>, Some(llm_response)))
    /\ UNCHANGED <<exam_name, search_response, links, idx, syllabus_content>>
    /\ HandlerResume(llm_response, status_box)

Next ==
    \/ \E name \in ExamNames : Click(name)
    \/ \E response \in AgentResponses(SearchTexts) : SearchReturns(response)
    \/ \E response \in AgentResponses(CrawlTexts) : CrawlReturns(response)
    \/ \E llm_response \in LLMOutputs : LLMReturns(llm_response)

Spec ==
    Init /\ [][Next]_vars

\* every external call returns
FairSpec ==
    /\ Spec
    /\ WF_vars(\E response \in AgentResponses(SearchTexts) : SearchReturns(response))
    /\ WF_vars(\E response \in AgentResponses(CrawlTexts) : CrawlReturns(response))
    /\ WF_vars(\E llm_response \in LLMOutputs : LLMReturns(llm_response))

\* ------------------------------------------------------------------------
\* Reading the log
\* ------------------------------------------------------------------------

\* the events of one kind, in order
CallsOf(op) ==
    LET IsOp(e) == e.op = op IN SelectSeq(log, IsOp)

\* the URLs CrawlAgent.crawl was called with, in order
CrawledUrls ==
    [n \in 1..Len(CallsOf("crawl")) |-> CallsOf("crawl")[n].arg]

\* the search call of this run has returned
SearchReturned ==
    CallsOf("search_ret") # <<>>

\* what the search call returned (None or a text)
SearchResult ==
    CallsOf("search_ret")[1].ret

\* summarize_syllabus has been called in this run
Summarized ==
    CallsOf("summarize") # <<>>

\* the aggregate text summarize_syllabus was called with
Aggregate ==
    CallsOf("summarize")[1].arg

\* an optional text that is there and not empty
NonEmptyText(o) ==
    o # None /\ Len(o[1]) > 0

Min(a, b) ==
    IF a < b THEN a ELSE b

\* ------------------------------------------------------------------------
\* Claims
\* ------------------------------------------------------------------------

\* C1: when the search yields no result (None), fetch_syllabus returns
\* exactly "No relevant syllabus found." and the run holds no crawl call and
\* no call of the summarizer or the language model.
C1_NoSearchResult ==
    (SearchReturned /\ SearchResult = None) =>
        /\ fstate = "Failed"
        /\ result = Some(Str(NO_RELEVANT))
        /\ CallsOf("crawl") = <<>>
        /\ CallsOf("summarize") = <<>>
        /\ CallsOf("llm") = <<>>

C1_Witness ==
    /\ SearchReturned
    /\ SearchResult = None
    /\ exam_name = EXAM_JEE
    /\ result = Some(Str(NO_RELEVANT))

\* C2: the crawled URLs are at every moment a prefix of, and once the loop
\* is over exactly, the first min(2, len(L)) entries of the extracted link
\* list L, in order, duplicates included.
C2_CrawlsFirstTwo ==
    (SearchReturned /\ NonEmptyText(SearchResult)) =>
        LET L == extract_links(SearchResult[1])
            n == Min(MAX_LINKS, Len(L))
        IN  /\ Len(CrawledUrls) <= n
            /\ CrawledUrls = SubSeq(L, 1, Len(CrawledUrls))
            /\ fstate \in {"Summarizing", "Done"} =>
                   CrawledUrls = SubSeq(L, 1, n)

C2_Witness ==
    /\ fstate = "Done"
    /\ NonEmptyText(SearchResult)
    /\ Len(extract_links(SearchResult[1])) > 2
    /\ extract_links(SearchResult[1])[1] = extract_links(SearchResult[1])[2]
    /\ CrawledUrls = <<URL_A, URL_A>>

\* C3: when the search result holds no link, no crawl call is made and
\* summarize_syllabus is called with the search result text itself.
C3_NoLinksVerbatim ==
    (Summarized /\ extract_links(SearchResult[1]) = <<>>) =>
        /\ CallsOf("crawl") = <<>>
        /\ Aggregate = SearchResult[1]

C3_Witness ==
    /\ Summarized
    /\ SearchResult = Some(PLAIN_TEXT)
    /\ Aggregate = PLAIN_TEXT
    /\ fstate = "Done"

\* the returns of the crawl calls made before summarize_syllabus was called
CrawlReturnsSeen ==
    CallsOf("crawl_ret")

\* "Syllabus from <url>: <text>\n\n"
Fragment(url, text) ==
    FRAG_HEAD \o url \o FRAG_SEP \o text \o FRAG_END

RECURSIVE FragmentsOf(_, _, _)
\* the fragments of the crawl returns from the n-th on whose position is in
\* kept, in order
FragmentsOf(rets, n, kept) ==
    IF n > Len(rets) THEN <<>>
    ELSE (IF n \in kept THEN Fragment(rets[n].arg, rets[n].ret[1]) ELSE <<>>)
         \o FragmentsOf(rets, n + 1, kept)

\* C4 as stated: with at least one link, the aggregate is the fragments of
\* the links whose crawl returned a result that is not absent, in link order.
C4_Original ==
    (Summarized /\ extract_links(SearchResult[1]) # <<>>) =>
        Aggregate = FragmentsOf(CrawlReturnsSeen, 1,
                        {n \in 1..Len(CrawlReturnsSeen) :
                            CrawlReturnsSeen[n].ret # None})

\* C4 amended: with at least one link, the aggregate is the fragments of the
\* links whose crawl returned a non-empty text, in link order, and nothing
\* else: a crawl that returned nothing or the empty string adds nothing, and
\* the search text is not part of the aggregate.
C4_FragmentsOfNonEmptyCrawls ==
    (Summarized /\ extract_links(SearchResult[1]) # <<>>) =>
        /\ Len(CrawlReturnsSeen) = Len(CrawledUrls)
        /\ \A n \in 1..Len(CrawlReturnsSeen) :
               CrawlReturnsSeen[n].arg = CrawledUrls[n]
        /\ Aggregate = FragmentsOf(CrawlReturnsSeen, 1,
                                 {n \in 1..Len(CrawlReturnsSeen) :
                                     NonEmptyText(CrawlReturnsSeen[n].ret)})

C4_Witness ==
    /\ Summarized
    /\ CrawledUrls = <<URL_A, URL_B>>
    /\ CrawlReturnsSeen[1].ret = Some(CRAWL_TEXT_1)
    /\ CrawlReturnsSeen[2].ret = Some(CRAWL_TEXT_1)
    /\ Aggregate = Fragment(URL_A, CRAWL_TEXT_1) \o Fragment(URL_B, CRAWL_TEXT_1)

\* a link of the text: it starts with the scheme at some position, holds no
\* character the class rejects, and ends at the end of the text or before
\* such a character
MaximalUrlIn(text, link) ==
    /\ \A n \in 1..Len(link) : link[n] \notin UrlStop
    /\ \/ OccursAt(link, 1, HTTP \o SCHEME_SEP) /\ Len(link) > 7
       \/ OccursAt(link, 1, HTTP \o <<"s">> \o SCHEME_SEP) /\ Len(link) > 8
    /\ \E p \in 1..Len(text) :
          /\ OccursAt(text, p, link)
          /\ p + Len(link) <= Len(text) => text[p + Len(link)] \in UrlStop

\* C5 as stated: the example text gives http://a.com/x and https://b.org/y,
\* and no returned link ends with the "!" that followed it in the text.
C5_Original ==
    (SearchReturned /\ NonEmptyText(SearchResult)) =>
        /\ SearchResult[1] = EXAMPLE_TEXT => links = <<URL_A, URL_B>>
        /\ \A n \in 1..Len(links) : links[n][Len(links[n])] # "!"

\* C5 amended: a match ends only at the end of the text or before a
\* whitespace, quote or angle-bracket character, so punctuation such as "!"
\* right after a URL belongs to the match: the example text gives
\* http://a.com/x and https://b.org/y! .
C5_TrailingPunctuationKept ==
    (SearchReturned /\ NonEmptyText(SearchResult)) =>
        /\ SearchResult[1] = EXAMPLE_TEXT =>
               links = <<URL_A, URL_B \o <<"!">> >>
        /\ \A n \in 1..Len(links) : MaximalUrlIn(SearchResult[1], links[n])

C5_Witness ==
    /\ SearchReturned
    /\ SearchResult = Some(EXAMPLE_TEXT)
    /\ links = <<URL_A, URL_B \o <<"!">> >>
    /\ CrawledUrls # <<>>

\* C6: the prompt sent to the language model holds the exam name and the
\* aggregate text summarize_syllabus was called with.
C6_PromptEmbedsAggregate ==
    \A n \in 1..Len(log) :
        log[n].op = "llm" =>
            /\ Contains(log[n].arg, exam_name)
            /\ Contains(log[n].arg, Aggregate)

\* the handler has put nothing of a retrieved syllabus on the page
NothingRendered ==
    /\ ui.success = ""
    /\ ui.code = None
    /\ ui.download = None

\* C7: when the search returns nothing, the handler reaches its success
\* state and shows the failure string as the syllabus.
C7_FailureStringDisplayed ==
    (fstate = "Failed") =>
        /\ pc = "finished"
        /\ ui.success # ""
        /\ ui.code # None
        /\ ui.download # None

\* the returned value is a str holding one well-formed JSON text
ValidJson(value) ==
    value.type = "str" /\ decode(value.v).ok

\* returned texts known not to be JSON
KnownInvalid ==
    {Str(NO_RELEVANT), Str(OUT_FENCED), Str(OUT_TRAILING_COMMA),
     Str(OUT_EXTRA_DATA), Str(OUT_TRUNCATED), Str(OUT_EMPTY)}

\* C8: when fetch_syllabus returns a value that is not valid JSON, json.loads
\* raises (JSONDecodeError for a str), the exception leaves the handler, and
\* the handler shows no success message, no syllabus block and no download.
C8_InvalidJsonRaises ==
    (result # None /\ (~ValidJson(result[1]) \/ result[1] \in KnownInvalid)) =>
        /\ pc = "raised"
        /\ error # ""
        /\ result[1].type = "str" => error = "JSONDecodeError"
        /\ NothingRendered

C8_Witness ==
    /\ fstate = "Done"
    /\ result = Some(Str(OUT_FENCED))
    /\ pc = "raised"
    /\ error = "JSONDecodeError"

\* the n-th event of the log is a write of msg
IsWrite(n, msg) ==
    log[n].op = "write" /\ log[n].arg = msg

\* number of crawl calls among the first n events
CrawlsUpTo(n) ==
    Cardinality({m \in 1..n : log[m].op = "crawl"})

\* C9: the log starts with the searching notification and the search call;
\* every crawl call comes right after the crawling notification naming its
\* link, which comes right after the return of the search or of the previous
\* crawl; the summarizing notification comes once, after every crawl has
\* returned and right before the summarizer and LLM calls; a run without
\* search result holds the searching notification only.
C9_NotificationOrder ==
    /\ log # <<>> =>
          Len(log) >= 2 /\ IsWrite(1, MSG_SEARCHING) /\ log[2].op = "search"
    /\ \A n \in 1..Len(log) :
        /\ IsWrite(n, MSG_SEARCHING) => n = 1
        /\ log[n].op = "search" => n = 2
        /\ log[n].op = "search_ret" => n = 3
        /\ log[n].op = "crawl" =>
              /\ n > 3
              /\ IsWrite(n - 1, MSG_CRAWLING \o log[n].arg)
              /\ log[n - 2].op \in {"search_ret", "crawl_ret"}
              /\ CrawlsUpTo(n) <= Len(links)
              /\ log[n].arg = links[CrawlsUpTo(n)]
        /\ log[n].op = "crawl_ret" => n > 1 /\ log[n - 1].op = "crawl"
        /\ (log[n].op = "write" /\ n > 1 /\ log[n].arg # MSG_SUMMARIZING) =>
              /\ n < Len(log)
              /\ log[n + 1].op = "crawl"
              /\ log[n].arg = MSG_CRAWLING \o log[n + 1].arg
        /\ IsWrite(n, MSG_SUMMARIZING) =>
              /\ n > 1
              /\ log[n - 1].op \in {"search_ret", "crawl_ret"}
              /\ CrawlsUpTo(n) = Len(links)
              /\ Len(CallsOf("crawl_ret")) = Len(links)
              /\ n + 2 <= Len(log)
              /\ log[n + 1].op = "summarize"
              /\ log[n + 2].op = "llm"
              /\ \A m \in (n + 1)..Len(log) : log[m].op \notin {"write", "crawl"}
        /\ log[n].op = "llm" => n > 2 /\ IsWrite(n - 2, MSG_SUMMARIZING)
    /\ fstate = "Failed" => CallsOf("write") = <<Write(MSG_SEARCHING)>>
    /\ fstate \in {"Summarizing", "Done"} =>
          Len(CallsOf("write")) = Len(links) + 2

C9_Witness ==
    /\ fstate = "Done"
    /\ CrawledUrls = <<URL_A, URL_B>>
    /\ Len(CallsOf("write")) = 4
    /\ IsWrite(4, MSG_CRAWLING \o URL_A)
    /\ IsWrite(7, MSG_CRAWLING \o URL_B)
    /\ IsWrite(10, MSG_SUMMARIZING)

\* the states fetch_syllabus may move between; a new click leaves a
\* terminal state
Successors(s) ==
    CASE s = "Idle" -> {"Searching"}
      [] s = "Searching" -> {"Crawling", "Summarizing", "Failed"}
      [] s = "Crawling" -> {"Crawling", "Summarizing"}
      [] s = "Summarizing" -> {"Done"}
      [] s \in {"Done", "Failed"} -> {"Searching", "Idle"}

\* calls of one run: one search, at most two crawls, each link crawled once
\* in its turn, at most one summarizer and one LLM call
CallCounts ==
    /\ Len(CallsOf("search")) = (IF fstate = "Idle" THEN 0 ELSE 1)
    /\ Len(CallsOf("crawl")) <= MAX_LINKS
    /\ CrawledUrls = SubSeq(links, 1, Len(CrawledUrls))
    /\ Len(CallsOf("summarize")) <= 1
    /\ Len(CallsOf("llm")) = Len(CallsOf("summarize"))

\* the handler is through exactly when fetch_syllabus has returned, and Done
\* returns what the one LLM call returned
TerminalStates ==
    /\ fstate \in {"Done", "Failed"} <=> pc \in {"finished", "raised"}
    /\ fstate \in {"Done", "Failed"} <=> result # None
    /\ fstate = "Done" =>
          /\ Len(CallsOf("llm")) = 1
          /\ log[Len(log)].op = "llm_ret"
          /\ result = log[Len(log)].ret
    /\ fstate = "Failed" => result = Some(Str(NO_RELEVANT))

\* C10 as stated: the run ends in Failed only when the search result is
\* absent (None), and every other run calls the summarizer once and ends in
\* Done; one search call, at most two crawl calls, at most one LLM call.
C10_Original ==
    /\ CallCounts
    /\ TerminalStates
    /\ SearchReturned =>
          IF SearchResult = None THEN fstate = "Failed"
          ELSE fstate # "Failed"

\* C10 amended, state part: as stated, but the run ends in Failed exactly
\* when the search result is absent or the empty string.
C10_Safety ==
    /\ CallCounts
    /\ TerminalStates
    /\ SearchReturned =>
          IF NonEmptyText(SearchResult) THEN fstate # "Failed"
          ELSE fstate = "Failed"

\* C10 amended, step part: fetch_syllabus only moves forward through
\* Idle -> Searching -> Crawling -> Summarizing -> Done / Failed, and the
\* loop position never goes back within a run.
C10_Step ==
    /\ fstate' # fstate => fstate' \in Successors(fstate)
    /\ fstate \notin {"Done", "Failed", "Idle"} =>
          /\ fstate' \in Successors(fstate)
          /\ idx' >= idx
          /\ fstate' = "Crawling" /\ fstate = "Crawling" => idx' = idx + 1

\* C10 amended: when every external call returns, every run ends in Done or
\* in Failed, Failed exactly when the search result is absent or empty,
\* after one search call, at most two crawl calls and at most one LLM call,
\* none repeated; in Done the summarizer ran once and its output is returned.
C10_LinearTerminating ==
    /\ []C10_Safety
    /\ [][C10_Step]_vars
    /\ (pc = "fetching") ~> (fstate \in {"Done", "Failed"})

C10_Witness ==
    /\ fstate = "Done"
    /\ Len(CallsOf("search")) = 1
    /\ Len(CallsOf("crawl")) = 2
    /\ Len(CallsOf("llm")) = 1
    /\ result = Some(Str(OUT_OBJECT))
    /\ pc = "finished"

====
